---- MODULE Spec2Model ----
(***************************************************************************)
(* Dependence of crime on the standard of living: the DependenceAnalyzer   *)
(* (median split, result accumulation) and the App.run driver.             *)
(*                                                                         *)
(* Numbers.  A float is a record [k, v]: k = "num" with v the value in     *)
(* ticks of 0.00005, or k = "nan".  Table cells are even numbers of ticks  *)
(* (values with 4 decimals), so that the mean of two cells is a whole      *)
(* number of ticks and every median is exact.  round(3) is numpy's         *)
(* round-half-to-even on the exact value.  DIFFERENCE_PERCENT, the one     *)
(* quotient of the program, is an exact fraction [k, n, d] in lowest       *)
(* terms, or "nan", or "inf".                                              *)
(*                                                                         *)
(* Library results.  Series.corr and scipy's ttest_ind are not code of the *)
(* repository: what they return on data they accept is the environment's   *)
(* choice, held in the variable lib; the code's own .round(3) is applied   *)
(* to it.  On data they cannot use they return NaN.                        *)
(***************************************************************************)
EXTENDS Integers, Sequences, FiniteSets, TLC

VARIABLES
    df,          \* the source table of the analyzer-level specifications
    df_result,   \* the result table the analyzer accumulates into
    lib,         \* raw results of Series.corr / ttest_ind on usable data
    call,        \* what the last calculate_dependence_by_column call did
    pc,          \* App.run: position in run()
    files,       \* App.run: the four input CSV files on disk
    frames,      \* App.run: the local tables of run() (read and merged)
    crime_df,    \* App.run: result table of CRIME_INDEX
    murder_df,   \* App.run: result table of RATE_PER_100000_N
    disk,        \* App.run: output files written, in order, with contents
    log,         \* App.run: lines printed
    latest       \* history: per comparer column, the table and comparable
                 \* column of the last call that stored its row, and whether
                 \* the column had a row before that call

vars == <<df, df_result, lib, call, latest, pc, files, frames, crime_df, murder_df, disk, log>>

analyzerVars == <<df, df_result, call, latest>>
appVars == <<pc, files, frames, crime_df, murder_df, disk, log>>

-----------------------------------------------------------------------------
(* Bounds of the model *)

\* rows of an exhaustively enumerated source table
MaxRows == 3

-----------------------------------------------------------------------------
(* Floats *)

\* .round(3): the number of decimals every rounding of the analyzer keeps
Decimals == 3

\* ticks in 10^-Decimals (a tick is half of 10^-4)
Milli == 2 * 10^(4 - Decimals)

NaN == [k |-> "nan", v |-> 0]

Num(v) == [k |-> "num", v |-> v]

\* a value given in ten-thousandths: Val(10004) is 1.0004
Val(t) == Num(2 * t)

IsNaN(x) == x.k = "nan"

\* numpy float64.round(3) / DataFrame.round(3) on one value, half to even
RoundTicks(v) ==
    LET q == v \div Milli
        r == v % Milli
    IN  IF 2 * r < Milli THEN q * Milli
        ELSE IF 2 * r > Milli THEN (q + 1) * Milli
        ELSE IF q % 2 = 0 THEN q * Milli ELSE (q + 1) * Milli

\* a text cell (a country name): DataFrame.round leaves it alone
Str(name) == [k |-> "str", v |-> name]

round(x) == IF x.k = "num" THEN Num(RoundTicks(x.v)) ELSE x

\* float comparisons: any comparison with NaN is False
gt(x, y) == ~IsNaN(x) /\ ~IsNaN(y) /\ x.v > y.v

le(x, y) == ~IsNaN(x) /\ ~IsNaN(y) /\ x.v <= y.v

\* faulty variant of AbsDiff: a missing operand counts as 0
AbsDiffSkipNaN(a, b) ==
    LET x == IF IsNaN(a) THEN 0 ELSE a.v
        y == IF IsNaN(b) THEN 0 ELSE b.v
    IN  Num(IF x >= y THEN x - y ELSE y - x)

\* abs(a - b) on floats
AbsDiff(a, b) ==
    IF IsNaN(a) \/ IsNaN(b) THEN NaN
    ELSE Num(IF a.v >= b.v THEN a.v - b.v ELSE b.v - a.v)

RECURSIVE GCD(_, _)
GCD(a, b) == IF b = 0 THEN a ELSE GCD(b, a % b)

PctNaN == [k |-> "nan", n |-> 0, d |-> 1]

PctInf == [k |-> "inf", n |-> 0, d |-> 1]

Pct(n, d) == [k |-> "num", n |-> n, d |-> d]

\* faulty variant of DivTimes100: a zero divisor gives 0
DivTimes100ZeroGuard(diff, avg) ==
    IF IsNaN(diff) \/ IsNaN(avg) THEN PctNaN
    ELSE IF avg.v = 0 THEN Pct(0, 1)
    ELSE LET s == IF avg.v < 0 THEN -1 ELSE 1
             a == s * avg.v
             g == GCD(diff.v * 100, a)
         IN  Pct(s * ((diff.v * 100) \div g), a \div g)

\* diff / avg_comparable * 100 on numpy float64 scalars: a zero divisor raises
\* nothing, it gives inf (nan for 0/0) with a RuntimeWarning
DivTimes100(diff, avg) ==
    IF IsNaN(diff) \/ IsNaN(avg) THEN PctNaN
    ELSE IF avg.v = 0 THEN (IF diff.v = 0 THEN PctNaN ELSE PctInf)
    ELSE LET s == IF avg.v < 0 THEN -1 ELSE 1
             a == s * avg.v
             g == GCD(diff.v * 100, a)
         IN  Pct(s * ((diff.v * 100) \div g), a \div g)

-----------------------------------------------------------------------------
(* Tables: cols is the set of column names, index the row labels in order,  *)
(* row the cells of each label.                                            *)

Frame(cols, index, row) == [cols |-> cols, index |-> index, row |-> row]

Labels(t) == {t.index[i] : i \in 1..Len(t.index)}

\* df[mask]: the rows whose label is in keep, in the table's order
Select(t, keep) ==
    LET In(l) == l \in keep
    IN  Frame(t.cols, SelectSeq(t.index, In), [l \in keep |-> t.row[l]])

\* DataFrame.round(3)
RoundFrame(t) ==
    Frame(t.cols, t.index, [l \in Labels(t) |-> [c \in t.cols |-> round(t.row[l][c])]])

\* Series.dropna() of one column: the labels that hold a value
Present(t, c) == {l \in Labels(t) : ~IsNaN(t.row[l][c])}

\* the k-th smallest cell of column c among the labels L
Kth(t, c, L, k) ==
    LET x == [l \in L |-> t.row[l][c].v]
    IN  CHOOSE v \in {x[l] : l \in L} :
            /\ Cardinality({l \in L : x[l] < v}) < k
            /\ k <= Cardinality({l \in L : x[l] <= v})

\* Series.median(): missing cells skipped, NaN for no cell at all
median(t, c) ==
    LET L == Present(t, c)
        n == Cardinality(L)
    IN  IF n = 0 THEN NaN
        ELSE IF n % 2 = 1 THEN Num(Kth(t, c, L, (n + 1) \div 2))
        ELSE Num((Kth(t, c, L, n \div 2) + Kth(t, c, L, n \div 2 + 1)) \div 2)

-----------------------------------------------------------------------------
(* Library results the analyzer consumes *)

\* Series.corr(other): Pearson over the rows complete in both columns; NaN
\* with fewer than 2 such rows or a constant column, else the library's value
corr(t, c, d, lb) ==
    LET L == Present(t, c) \cap Present(t, d)
    IN  IF Cardinality(L) < 2 THEN NaN
        ELSE IF Cardinality({t.row[l][c].v : l \in L}) = 1 THEN NaN
        ELSE IF Cardinality({t.row[l][d].v : l \in L}) = 1 THEN NaN
        ELSE lb.corr

\* ttest_ind(a, b).pvalue with equal variances: NaN when a sample has fewer
\* than 2 values (its variance is undefined), else the library's value
ttest_ind(nHigh, nLow, lb) ==
    IF nHigh < 2 \/ nLow < 2 THEN NaN ELSE lb.p

-----------------------------------------------------------------------------
(* DependenceAnalyzer, package version (src/src/dependence_analyzer.py) *)

GDP == "GDP"

\* faulty variant of COMPARER_COLUMNS: two columns change places
COMPARER_COLUMNS_Swapped ==
    << "QUALITY_OF_LIFE_INDEX", "HEALTH_CARE_INDEX", "PURCHASING_POWER_INDEX",
       "COST_OF_LIVING_INDEX", "PROPERTY_PRICE_TO_INCOME_RATIO", "POLLUTION_INDEX",
       "CLIMATE_INDEX" >>

COMPARER_COLUMNS ==
    << "QUALITY_OF_LIFE_INDEX", "PURCHASING_POWER_INDEX", "HEALTH_CARE_INDEX",
       "COST_OF_LIVING_INDEX", "PROPERTY_PRICE_TO_INCOME_RATIO", "POLLUTION_INDEX",
       "CLIMATE_INDEX" >>

\* line 36: df[comparer_column].median().round(3)
median_comparer(t, c) == round(median(t, c))

\* faulty variant of group_high_comparer: >= in place of >
group_high_comparer_ge(t, c) ==
    LET m == median_comparer(t, c)
    IN  RoundFrame(Select(t, {l \in Labels(t) : ~gt(m, t.row[l][c]) /\ ~IsNaN(t.row[l][c])
                                                   /\ ~IsNaN(m)}))

\* line 39: df[df[comparer_column] > median_comparer].round(3)
group_high_comparer(t, c) ==
    LET m == median_comparer(t, c)
    IN  RoundFrame(Select(t, {l \in Labels(t) : gt(t.row[l][c], m)}))

\* faulty variant of group_low_comparer: < in place of <=
group_low_comparer_lt(t, c) ==
    LET m == median_comparer(t, c)
    IN  RoundFrame(Select(t, {l \in Labels(t) : gt(m, t.row[l][c])}))

\* line 40: df[df[comparer_column] <= median_comparer].round(3)
group_low_comparer(t, c) ==
    LET m == median_comparer(t, c)
    IN  RoundFrame(Select(t, {l \in Labels(t) : le(t.row[l][c], m)}))

\* the 6-tuple calculate_dependence_statistics returns
calculate_dependence_statistics(t, comparer_column, comparable_column, lb) ==
    LET high == group_high_comparer(t, comparer_column)
        low == group_low_comparer(t, comparer_column)
        group_high == Present(high, comparable_column)
        group_low == Present(low, comparable_column)
    IN  [ median_comparer |-> median_comparer(t, comparer_column),
          median_comparable |-> round(median(t, comparable_column)),
          median_comparable_high |-> round(median(high, comparable_column)),
          median_comparable_low |-> round(median(low, comparable_column)),
          correlation |-> round(corr(t, comparer_column, comparable_column, lb)),
          p_value |-> round(ttest_ind(Cardinality(group_high), Cardinality(group_low), lb)) ]

-----------------------------------------------------------------------------
(* DependenceAnalyzer, root-level version (src/dependence_analyzer.py):    *)
(* only the p-value is rounded.                                            *)

group_high_comparer_root(t, c) ==
    LET m == median(t, c)
    IN  Select(t, {l \in Labels(t) : gt(t.row[l][c], m)})

group_low_comparer_root(t, c) ==
    LET m == median(t, c)
    IN  Select(t, {l \in Labels(t) : le(t.row[l][c], m)})

calculate_dependence_statistics_root(t, comparer_column, comparable_column, lb) ==
    LET high == group_high_comparer_root(t, comparer_column)
        low == group_low_comparer_root(t, comparer_column)
        group_high == Present(high, comparable_column)
        group_low == Present(low, comparable_column)
    IN  [ median_comparer |-> median(t, comparer_column),
          median_comparable |-> median(t, comparable_column),
          median_comparable_high |-> median(high, comparable_column),
          median_comparable_low |-> median(low, comparable_column),
          correlation |-> corr(t, comparer_column, comparable_column, lb),
          p_value |-> round(ttest_ind(Cardinality(group_high), Cardinality(group_low), lb)) ]

-----------------------------------------------------------------------------
(* Result accumulation *)

\* App._create_df(): a result table with the 8 columns and no row
_create_df == [index |-> <<>>, row |-> <<>>]

Keys(res) == {res.index[i] : i \in 1..Len(res.index)}

\* faulty variant of SetRow: the row is always appended
SetRowAppend(res, key, r) ==
    [index |-> Append(res.index, key),
     row |-> [k \in Keys(res) \cup {key} |-> IF k = key THEN r ELSE res.row[k]]]

\* df.loc[key] = {...}: the row of an existing key is overwritten in place,
\* a new key is appended below the others
SetRow(res, key, r) ==
    IF key \in Keys(res)
    THEN [index |-> res.index, row |-> [res.row EXCEPT ![key] = r]]
    ELSE [index |-> Append(res.index, key),
          row |-> [k \in Keys(res) \cup {key} |-> IF k = key THEN r ELSE res.row[k]]]

\* faulty variant of _save_stats_to_df: the percentage is taken of the comparer median
_save_stats_to_df_WrongBase(res, comparer_column, avg_comparer, avg_comparable_high, avg_comparable_low, avg_comparable, corr_, p_value) ==
    LET diff == AbsDiff(avg_comparable_high, avg_comparable_low)
    IN  SetRow(res, comparer_column,
               [ COMPARER_COLUMN |-> comparer_column,
                 AVERAGE_COMPARER |-> avg_comparer,
                 AVERAGE_COMPARABLE_HIGHER |-> avg_comparable_high,
                 AVERAGE_COMPARABLE_LOWER |-> avg_comparable_low,
                 DIFFERENCE |-> diff,
                 DIFFERENCE_PERCENT |-> DivTimes100(diff, avg_comparer),
                 CORRELATION |-> corr_,
                 P_VALUE |-> p_value ])

_save_stats_to_df(res, comparer_column, avg_comparer, avg_comparable_high, avg_comparable_low, avg_comparable, corr_, p_value) ==
    LET diff == AbsDiff(avg_comparable_high, avg_comparable_low)
    IN  SetRow(res, comparer_column,
               [ COMPARER_COLUMN |-> comparer_column,
                 AVERAGE_COMPARER |-> avg_comparer,
                 AVERAGE_COMPARABLE_HIGHER |-> avg_comparable_high,
                 AVERAGE_COMPARABLE_LOWER |-> avg_comparable_low,
                 DIFFERENCE |-> diff,
                 DIFFERENCE_PERCENT |-> DivTimes100(diff, avg_comparable),
                 CORRELATION |-> corr_,
                 P_VALUE |-> p_value ])

\* a missing column raises KeyError on the first line of the statistics
HasColumns(t, comparer_column, comparable_column) ==
    comparer_column \in t.cols /\ comparable_column \in t.cols

\* faulty variant of calculate_dependence_by_column: the source table is rounded in
\* place
calculate_dependence_by_column_InPlace(t, res, comparer_column, comparable_column, lb) ==
    LET s == calculate_dependence_statistics(t, comparer_column, comparable_column, lb)
    IN  [ df |-> RoundFrame(t),
          df_result |-> _save_stats_to_df(res, comparer_column, s.median_comparer,
                            s.median_comparable_high, s.median_comparable_low,
                            s.median_comparable, s.correlation, s.p_value) ]

\* calculate_dependence_by_column, package version: the two tables it was
\* handed, as they are when it returns
calculate_dependence_by_column(t, res, comparer_column, comparable_column, lb) ==
    LET s == calculate_dependence_statistics(t, comparer_column, comparable_column, lb)
    IN  [ df |-> t,
          df_result |-> _save_stats_to_df(res, comparer_column, s.median_comparer,
                            s.median_comparable_high, s.median_comparable_low,
                            s.median_comparable, s.correlation, s.p_value) ]

\* calculate_dependence_by_column, root-level version
calculate_dependence_by_column_root(t, res, comparer_column, comparable_column, lb) ==
    LET s == calculate_dependence_statistics_root(t, comparer_column, comparable_column, lb)
    IN  [ df |-> t,
          df_result |-> _save_stats_to_df(res, comparer_column, s.median_comparer,
                            s.median_comparable_high, s.median_comparable_low,
                            s.median_comparable, s.correlation, s.p_value) ]

-----------------------------------------------------------------------------
(* Source tables of the analyzer-level specifications *)

CRIME_INDEX == "CRIME_INDEX"

RATE_PER_100000_N == "RATE_PER_100000_N"

StatCols == {GDP, CRIME_INDEX}

\* cells of the comparer column: missing, a value with 4 decimals, a value
\* with 3
ComparerValues == {NaN, Val(10004), Val(20000)}

\* cells of the comparable column
ComparableValues == {NaN, Val(0), Val(10004)}

StatRows == {[c \in StatCols |-> IF c = GDP THEN x ELSE y] :
                x \in ComparerValues, y \in ComparableValues}

\* every table of at most MaxRows rows over these cells, labelled 1..n as
\* read_csv and merge label them
SmallTables ==
    UNION {{Frame(StatCols, [i \in 1..n |-> i], r) : r \in [1..n -> StatRows]} :
              n \in 0..MaxRows}

\* countries A(1,10) B(2,20) C(3,30) D(4,40)
ScenarioTable ==
    Frame(StatCols, <<1, 2, 3, 4>>,
          [l \in 1..4 |-> [c \in StatCols |->
              IF c = GDP THEN Val(10000 * l) ELSE Val(100000 * l)]])

\* missing, 2, 2 and 3 against 0, 1, 2 and 3: a missing comparer cell, two
\* rows at the median and one above it
TiesTable ==
    Frame(StatCols, <<1, 2, 3, 4>>,
          <<[GDP |-> NaN, CRIME_INDEX |-> Val(0)],
            [GDP |-> Val(20000), CRIME_INDEX |-> Val(10000)],
            [GDP |-> Val(20000), CRIME_INDEX |-> Val(20000)],
            [GDP |-> Val(30000), CRIME_INDEX |-> Val(30000)]>>)

\* 1.0006, 1.0006 and 2 against 1, 2 and 3: the median 1.0006 rounds up to
\* 1.001
RoundUpTable ==
    Frame(StatCols, <<1, 2, 3>>,
          <<[GDP |-> Val(10006), CRIME_INDEX |-> Val(10000)],
            [GDP |-> Val(10006), CRIME_INDEX |-> Val(20000)],
            [GDP |-> Val(20000), CRIME_INDEX |-> Val(30000)]>>)

StatTables == SmallTables \cup {ScenarioTable, TiesTable, RoundUpTable}

\* what corr / ttest_ind answer on data they can use
LibSet == { [corr |-> Val(1234), p |-> Val(456)],
            [corr |-> Val(0 - 9876), p |-> Val(5000)] }

QOL == COMPARER_COLUMNS[1]

AccCols == {GDP, QOL, CRIME_INDEX}

AccRow(g, q, y) == [c \in AccCols |-> IF c = GDP THEN g ELSE IF c = QOL THEN q ELSE y]

\* tables of the accumulation specification: two comparer columns; the last
\* one lacks the quality-of-life column
AccTables ==
    { Frame(AccCols, <<1, 2, 3, 4>>,
            [l \in 1..4 |-> AccRow(Val(10000 * l), Val(10000 * (5 - l)), Val(100000 * l))]),
      Frame(AccCols, <<1, 2, 3>>,
            <<AccRow(Val(10004), NaN, Val(0)), AccRow(Val(10006), Val(70000), Val(0)),
              AccRow(NaN, Val(70000), Val(12345))>>),
      Frame(AccCols, <<1, 2>>,
            <<AccRow(Val(20000), Val(5), Val(30001)), AccRow(Val(20000), Val(15), NaN)>>),
      ScenarioTable }

NoStats ==
    [ median_comparer |-> NaN, median_comparable |-> NaN, median_comparable_high |-> NaN,
      median_comparable_low |-> NaN, correlation |-> NaN, p_value |-> NaN ]

NoCall ==
    [ op |-> "none", err |-> "", comparer |-> "", comparable |-> "",
      high |-> {}, low |-> {}, stats |-> NoStats ]

Pc(at, i, err) == [at |-> at, i |-> i, err |-> err]

AppIdle ==
    /\ pc = Pc("idle", 0, "")
    /\ files = <<>>
    /\ frames = <<>>
    /\ crime_df = _create_df
    /\ murder_df = _create_df
    /\ disk = <<>>
    /\ log = <<>>

-----------------------------------------------------------------------------
(* Analyzer-level actions *)

\* one call analyzer.calculate_dependence_by_column(df, df_result, c, d) of
\* the package version
Calc(c, d) ==
    /\ call.op \in {"none", "package"}
    /\ IF HasColumns(df, c, d)
       THEN LET after == calculate_dependence_by_column(df, df_result, c, d, lib)
            IN  /\ df' = after.df
                /\ df_result' = after.df_result
                /\ call' = [ op |-> "package", err |-> "", comparer |-> c, comparable |-> d,
                             high |-> Labels(group_high_comparer(df, c)),
                             low |-> Labels(group_low_comparer(df, c)),
                             stats |-> calculate_dependence_statistics(df, c, d, lib) ]
                /\ latest' = [k \in DOMAIN latest \cup {c} |->
                                 IF k = c
                                 THEN [df |-> df, comparable |-> d, again |-> c \in DOMAIN latest]
                                 ELSE latest[k]]
       ELSE /\ call' = [NoCall EXCEPT !.op = "package", !.err = "KeyError",
                                      !.comparer = c, !.comparable = d]
            /\ UNCHANGED <<df, df_result, latest>>
    /\ UNCHANGED <<lib, appVars>>

\* the same call of the root-level version
CalcRoot(c, d) ==
    /\ call.op \in {"none", "root"}
    /\ IF HasColumns(df, c, d)
       THEN LET after == calculate_dependence_by_column_root(df, df_result, c, d, lib)
            IN  /\ df' = after.df
                /\ df_result' = after.df_result
                /\ call' = [ op |-> "root", err |-> "", comparer |-> c, comparable |-> d,
                             high |-> Labels(group_high_comparer_root(df, c)),
                             low |-> Labels(group_low_comparer_root(df, c)),
                             stats |-> calculate_dependence_statistics_root(df, c, d, lib) ]
                /\ latest' = [k \in DOMAIN latest \cup {c} |->
                                 IF k = c
                                 THEN [df |-> df, comparable |-> d, again |-> c \in DOMAIN latest]
                                 ELSE latest[k]]
       ELSE /\ call' = [NoCall EXCEPT !.op = "root", !.err = "KeyError",
                                      !.comparer = c, !.comparable = d]
            /\ UNCHANGED <<df, df_result, latest>>
    /\ UNCHANGED <<lib, appVars>>

\* the caller passes another source table to the next call
LoadTable ==
    /\ \E t \in AccTables : t # df /\ df' = t
    /\ UNCHANGED <<df_result, call, latest, lib, appVars>>

\* one table, one comparer column (or a column the table lacks), either version
InitStats ==
    /\ df \in StatTables
    /\ df_result = _create_df
    /\ lib \in LibSet
    /\ call = NoCall
    /\ latest = <<>>
    /\ AppIdle

NextStats ==
    \/ \E c \in {GDP, QOL} : Calc(c, CRIME_INDEX)
    \/ \E c \in {GDP, QOL} : CalcRoot(c, CRIME_INDEX)

SpecStats == InitStats /\ [][NextStats]_vars

\* any sequence of calls of the package version into one result table
InitAcc ==
    /\ df \in AccTables
    /\ df_result = _create_df
    /\ lib \in LibSet
    /\ call = NoCall
    /\ latest = <<>>
    /\ AppIdle

NextAcc ==
    \/ LoadTable
    \/ \E c \in {GDP, QOL} : Calc(c, CRIME_INDEX)

SpecAcc == InitAcc /\ [][NextAcc]_vars

-----------------------------------------------------------------------------
(* Claims about the median split and the stored row (SpecStats) *)

Returned == call.op # "none" /\ call.err = ""

ReturnedPackage == call.op = "package" /\ call.err = ""

Cell(l) == df.row[l][call.comparer]

StoredRow == df_result.row[call.comparer]

\* C1: for every table and column pair, high (comparer > median_comparer) and
\* low (comparer <= median_comparer) are disjoint, their union is exactly the
\* rows whose comparer value is not missing, and a row whose comparer value
\* equals median_comparer is in low.
C1_Partition ==
    Returned =>
        /\ call.high \cap call.low = {}
        /\ call.high \cup call.low = {l \in Labels(df) : ~IsNaN(Cell(l))}
        /\ \A l \in call.high : Cell(l).v > call.stats.median_comparer.v
        /\ \A l \in call.low : Cell(l).v <= call.stats.median_comparer.v
        /\ \A l \in Labels(df) :
              (~IsNaN(Cell(l)) /\ Cell(l) = call.stats.median_comparer) => l \in call.low

\* a call whose table has a missing comparer cell, a row at the threshold and
\* a row above it
C1_Witness ==
    /\ Returned
    /\ \E l \in Labels(df) : IsNaN(Cell(l))
    /\ \E l \in call.low : Cell(l) = call.stats.median_comparer
    /\ call.high # {}

\* every row holds the same comparer value m
AllComparerEqual(m) == Labels(df) # {} /\ \A l \in Labels(df) : Cell(l) = m

HighEmptyAndUndefined ==
    /\ call.high = {}
    /\ IsNaN(call.stats.median_comparable_high)
    /\ IsNaN(StoredRow.AVERAGE_COMPARABLE_HIGHER)
    /\ IsNaN(StoredRow.DIFFERENCE)

IsScenarioCall == ReturnedPackage /\ df = ScenarioTable /\ call.comparer = GDP

\* C7: the stored row has DIFFERENCE = |HIGHER - LOWER| and DIFFERENCE_PERCENT
\* = DIFFERENCE / median_comparable * 100, AVERAGE_COMPARER being the comparer
\* median and HIGHER / LOWER the comparable medians of high and low; on
\* A(1,10) B(2,20) C(3,30) D(4,40): median 2.5, high = {C,D} with median 35,
\* low = {A,B} with median 15, DIFFERENCE 20, DIFFERENCE_PERCENT 80.
C7_Row ==
    /\ ReturnedPackage =>
          LET r == StoredRow
              s == call.stats
              H == r.AVERAGE_COMPARABLE_HIGHER
              L == r.AVERAGE_COMPARABLE_LOWER
              D == r.DIFFERENCE
              P == r.DIFFERENCE_PERCENT
          IN  /\ r.AVERAGE_COMPARER = s.median_comparer
              /\ s.median_comparer = round(median(df, call.comparer))
              /\ H = round(median(RoundFrame(Select(df, call.high)), call.comparable))
              /\ L = round(median(RoundFrame(Select(df, call.low)), call.comparable))
              /\ IsNaN(D) <=> (IsNaN(H) \/ IsNaN(L))
              /\ ~IsNaN(D) => D.v >= 0 /\ (D.v = H.v - L.v \/ D.v = L.v - H.v)
              /\ (~IsNaN(D) /\ ~IsNaN(s.median_comparable) /\ s.median_comparable.v # 0)
                    => /\ P.k = "num"
                       /\ P.d > 0
                       /\ GCD(IF P.n < 0 THEN -P.n ELSE P.n, P.d) = 1
                       \* P.n / P.d = D * 100 / median_comparable
                       /\ \E g \in 1..(D.v * 100 + s.median_comparable.v) :
                             /\ P.n * g = D.v * 100
                             /\ P.d * g = s.median_comparable.v
    /\ IsScenarioCall =>
          /\ call.stats.median_comparer = Val(25000)
          /\ call.stats.median_comparable = Val(250000)
          /\ call.high = {3, 4}
          /\ call.low = {1, 2}
          /\ StoredRow.AVERAGE_COMPARER = Val(25000)
          /\ StoredRow.AVERAGE_COMPARABLE_HIGHER = Val(350000)
          /\ StoredRow.AVERAGE_COMPARABLE_LOWER = Val(150000)
          /\ StoredRow.DIFFERENCE = Val(200000)
          /\ StoredRow.DIFFERENCE_PERCENT = Pct(80, 1)

\* the scenario table has been processed
C7_Witness == IsScenarioCall /\ GDP \in Keys(df_result)

Rounded3(x) == IsNaN(x) \/ x.v % Milli = 0

\* C8: every numeric statistic stored in a result-table row (AVERAGE_COMPARER,
\* AVERAGE_COMPARABLE_HIGHER, AVERAGE_COMPARABLE_LOWER, DIFFERENCE,
\* CORRELATION, P_VALUE) is a value rounded to 3 decimals, for every input
\* table; DIFFERENCE_PERCENT is the quotient of the rounded values, not
\* rounded again.
C8_Rounded ==
    \A k \in Keys(df_result) :
        LET r == df_result.row[k]
        IN  /\ Rounded3(r.AVERAGE_COMPARER)
            /\ Rounded3(r.AVERAGE_COMPARABLE_HIGHER)
            /\ Rounded3(r.AVERAGE_COMPARABLE_LOWER)
            /\ Rounded3(r.DIFFERENCE)
            /\ Rounded3(r.CORRELATION)
            /\ Rounded3(r.P_VALUE)
            /\ r.DIFFERENCE_PERCENT =
                  DivTimes100(r.DIFFERENCE, round(median(latest[k].df, latest[k].comparable)))

\* C8 on rows stored by the package version alone
C8_RoundedPackage == call.op = "package" => C8_Rounded

HasComparerValue == \E l \in Labels(df) : ~IsNaN(Cell(l))

LowNotSmaller ==
    /\ call.low # {}
    /\ Cardinality(call.high) <= Cardinality(call.low)

\* C11 as stated: for every table with at least one non-missing comparer
\* value, the split of calculate_dependence_statistics (threshold: the median
\* rounded to 3 decimals, compared against the unrounded cells) yields a
\* non-empty low and a high that never has more rows than low.
C11_Original == (ReturnedPackage /\ HasComparerValue) => LowNotSmaller

\* C11 amended: for every table with at least one non-missing comparer value
\* whose comparer median is not lowered by the rounding to 3 decimals
\* (median_comparer >= the exact median), low is non-empty and high never has
\* more rows than low.
C11_Amended ==
    (Returned /\ HasComparerValue
        /\ call.stats.median_comparer.v >= median(df, call.comparer).v)
        => LowNotSmaller

\* a package-version call whose threshold the rounding has raised, with rows
\* on both sides of it
C11_Witness ==
    /\ ReturnedPackage
    /\ HasComparerValue
    /\ call.stats.median_comparer.v > median(df, call.comparer).v
    /\ call.high # {}
    /\ call.low # {}

-----------------------------------------------------------------------------
(* Claims about the result table under repeated calls (SpecAcc) *)

\* the 8 fields a call on table t with comparer c and comparable d stores
FieldsOf(t, c, d) ==
    LET s == calculate_dependence_statistics(t, c, d, lib)
        diff == AbsDiff(s.median_comparable_high, s.median_comparable_low)
    IN  [ COMPARER_COLUMN |-> c,
          AVERAGE_COMPARER |-> s.median_comparer,
          AVERAGE_COMPARABLE_HIGHER |-> s.median_comparable_high,
          AVERAGE_COMPARABLE_LOWER |-> s.median_comparable_low,
          DIFFERENCE |-> diff,
          DIFFERENCE_PERCENT |-> DivTimes100(diff, s.median_comparable),
          CORRELATION |-> s.correlation,
          P_VALUE |-> s.p_value ]

\* C2: after any sequence of calls on one result table, the table holds
\* exactly one row per comparer column processed, keyed by the column name,
\* carrying the 8 field values of the most recent call for that column.
C2_OneRowPerColumn ==
    /\ Len(df_result.index) = Cardinality(Keys(df_result))
    /\ Keys(df_result) = DOMAIN latest
    /\ DOMAIN df_result.row = DOMAIN latest
    /\ \A k \in DOMAIN latest :
          df_result.row[k] = FieldsOf(latest[k].df, k, latest[k].comparable)

\* a column processed a second time, from another table than the one at hand,
\* with a second column in the table
C2_Witness ==
    /\ GDP \in DOMAIN latest
    /\ latest[GDP].again
    /\ latest[GDP].df # df
    /\ Len(df_result.index) = 2

IsCallStep == call' # call \/ df_result' # df_result \/ latest' # latest

\* C9: one call leaves the source table unchanged and changes nothing in the
\* result table except the row keyed by the comparer column: every row stored
\* under another comparer column keeps its place and its 8 field values.
C9_Frame ==
    [][ IsCallStep =>
          /\ df' = df
          /\ \A i \in 1..Len(df_result.index) : df_result'.index[i] = df_result.index[i]
          /\ \A k \in Keys(df_result) \ {call'.comparer} :
                /\ k \in Keys(df_result')
                /\ df_result'.row[k] = df_result.row[k]
          /\ Keys(df_result') \subseteq Keys(df_result) \cup {call'.comparer} ]_vars

\* a call has rewritten the row of one column while another column had a row
C9_Witness ==
    /\ ReturnedPackage
    /\ latest[call.comparer].again
    /\ Keys(df_result) # {call.comparer}
    /\ latest[call.comparer].df = df

-----------------------------------------------------------------------------
(* App (src/app.py) *)

COUNTRY == "COUNTRY"

GdpFile == "gdp_per_capita.csv"

QolFile == "quality_of_life.csv"

CrimeFile == "crime_index.csv"

MurderFile == "murder_percent.csv"

CrimeOut == "crime_dependencies.csv"

MurderOut == "murder_dependencies.csv"

InputFiles == {GdpFile, QolFile, CrimeFile, MurderFile}

\* faulty variant of _read_df: a failure of the last read_csv goes unnoticed
_read_df_Partial(fs) ==
    IF \A f \in InputFiles \ {MurderFile} : fs.input[f].readable
    THEN [ ok |-> TRUE,
           frames |-> [ gdp_df |-> fs.input[GdpFile].table,
                        quality_of_life_df |-> fs.input[QolFile].table,
                        crime_df |-> fs.input[CrimeFile].table,
                        murder_df |-> fs.input[MurderFile].table ] ]
    ELSE [ok |-> FALSE, frames |-> <<>>]

\* _read_df: the four read_csv calls; any of them raising ends the whole read
_read_df(fs) ==
    IF \A f \in InputFiles : fs.input[f].readable
    THEN [ ok |-> TRUE,
           frames |-> [ gdp_df |-> fs.input[GdpFile].table,
                        quality_of_life_df |-> fs.input[QolFile].table,
                        crime_df |-> fs.input[CrimeFile].table,
                        murder_df |-> fs.input[MurderFile].table ] ]
    ELSE [ok |-> FALSE, frames |-> <<>>]

CanMerge(a, b) == COUNTRY \in a.cols /\ COUNTRY \in b.cols

\* pd.merge(a, b, on="COUNTRY"): inner join, the rows of a whose country b
\* has, in a's order, relabelled 1..n (country names are unique in a table)
merge(a, b) ==
    LET Has(l) == \E r \in Labels(b) : b.row[r][COUNTRY] = a.row[l][COUNTRY]
        left == SelectSeq(a.index, Has)
        n == Len(left)
        Right(l) == CHOOSE r \in Labels(b) : b.row[r][COUNTRY] = a.row[l][COUNTRY]
    IN  Frame(a.cols \cup b.cols, [i \in 1..n |-> i],
              [i \in 1..n |-> [c \in a.cols \cup b.cols |->
                  IF c \in a.cols THEN a.row[left[i]][c] ELSE b.row[Right(left[i])][c]]])

\* DataFrame.to_csv(path): the file holds the table as it is at the call
to_csv(d, name, table) == Append(d, [name |-> name, table |-> table])

\* run(), lines 28-32
Read ==
    /\ pc.at = "start"
    /\ LET r == _read_df(files)
       IN  IF r.ok
           THEN /\ frames' = r.frames
                /\ pc' = Pc("merge", 0, "")
                /\ log' = log
           ELSE /\ log' = Append(log, "Error reading dataframes")
                /\ pc' = Pc("done", 0, "")
                /\ frames' = frames
    /\ UNCHANGED <<files, crime_df, murder_df, disk, lib, analyzerVars>>

\* run(), lines 34-37: the four joins; a table without the key column raises
Merge ==
    /\ pc.at = "merge"
    /\ IF /\ CanMerge(frames.gdp_df, frames.crime_df)
          /\ CanMerge(frames.crime_df, frames.quality_of_life_df)
          /\ CanMerge(frames.gdp_df, frames.murder_df)
          /\ CanMerge(frames.murder_df, frames.quality_of_life_df)
       THEN /\ frames' = [ gdp_and_crime_df |-> merge(frames.gdp_df, frames.crime_df),
                           crime_and_qol_df |-> merge(frames.crime_df, frames.quality_of_life_df),
                           gdp_and_murder_df |-> merge(frames.gdp_df, frames.murder_df),
                           murder_and_qol_df |-> merge(frames.murder_df, frames.quality_of_life_df) ]
            /\ pc' = Pc("create", 0, "")
       ELSE /\ pc' = Pc("crashed", 0, "merge")
            /\ frames' = frames
    /\ UNCHANGED <<files, crime_df, murder_df, disk, log, lib, analyzerVars>>

\* run(), lines 39-40
CreateResults ==
    /\ pc.at = "create"
    /\ crime_df' = _create_df
    /\ murder_df' = _create_df
    /\ pc' = Pc("crime_gdp", 0, "")
    /\ UNCHANGED <<files, frames, disk, log, lib, analyzerVars>>

\* run(), lines 42-44
CrimeGdp ==
    /\ pc.at = "crime_gdp"
    /\ IF HasColumns(frames.gdp_and_crime_df, GDP, CRIME_INDEX)
       THEN LET after == calculate_dependence_by_column(
                             frames.gdp_and_crime_df, crime_df, GDP, CRIME_INDEX, lib)
            IN  /\ crime_df' = after.df_result
                /\ frames' = [frames EXCEPT !.gdp_and_crime_df = after.df]
                /\ pc' = Pc("crime_qol", 1, "")
       ELSE /\ pc' = Pc("crashed", 0, "crime")
            /\ UNCHANGED <<crime_df, frames>>
    /\ UNCHANGED <<files, murder_df, disk, log, lib, analyzerVars>>

\* run(), lines 45-48: one iteration of the loop over COMPARER_COLUMNS
CrimeQol ==
    /\ pc.at = "crime_qol"
    /\ IF pc.i > Len(COMPARER_COLUMNS)
       THEN /\ pc' = Pc("write_crime", 0, "")
            /\ UNCHANGED <<crime_df, frames>>
       ELSE IF HasColumns(frames.crime_and_qol_df, COMPARER_COLUMNS[pc.i], CRIME_INDEX)
       THEN LET after == calculate_dependence_by_column(
                             frames.crime_and_qol_df, crime_df, COMPARER_COLUMNS[pc.i],
                             CRIME_INDEX, lib)
            IN  /\ crime_df' = after.df_result
                /\ frames' = [frames EXCEPT !.crime_and_qol_df = after.df]
                /\ pc' = Pc("crime_qol", pc.i + 1, "")
       ELSE /\ pc' = Pc("crashed", pc.i, "crime")
            /\ UNCHANGED <<crime_df, frames>>
    /\ UNCHANGED <<files, murder_df, disk, log, lib, analyzerVars>>

\* faulty variant of WriteCrime: the crime table is not written at this point
WriteCrimeSkipped ==
    /\ pc.at = "write_crime"
    /\ pc' = Pc("murder_gdp", 0, "")
    /\ UNCHANGED <<files, frames, crime_df, murder_df, disk, log, lib, analyzerVars>>

\* run(), line 50
WriteCrime ==
    /\ pc.at = "write_crime"
    /\ IF CrimeOut \in files.readonly
       THEN /\ pc' = Pc("crashed", 0, "write_crime")
            /\ disk' = disk
       ELSE /\ disk' = to_csv(disk, CrimeOut, crime_df)
            /\ pc' = Pc("murder_gdp", 0, "")
    /\ UNCHANGED <<files, frames, crime_df, murder_df, log, lib, analyzerVars>>

\* run(), lines 52-54
MurderGdp ==
    /\ pc.at = "murder_gdp"
    /\ IF HasColumns(frames.gdp_and_murder_df, GDP, RATE_PER_100000_N)
       THEN LET after == calculate_dependence_by_column(
                             frames.gdp_and_murder_df, murder_df, GDP, RATE_PER_100000_N, lib)
            IN  /\ murder_df' = after.df_result
                /\ frames' = [frames EXCEPT !.gdp_and_murder_df = after.df]
                /\ pc' = Pc("murder_qol", 1, "")
       ELSE /\ pc' = Pc("crashed", 0, "murder")
            /\ UNCHANGED <<murder_df, frames>>
    /\ UNCHANGED <<files, crime_df, disk, log, lib, analyzerVars>>

\* run(), lines 55-58: one iteration of the loop over COMPARER_COLUMNS
MurderQol ==
    /\ pc.at = "murder_qol"
    /\ IF pc.i > Len(COMPARER_COLUMNS)
       THEN /\ pc' = Pc("write_murder", 0, "")
            /\ UNCHANGED <<murder_df, frames>>
       ELSE IF HasColumns(frames.murder_and_qol_df, COMPARER_COLUMNS[pc.i], RATE_PER_100000_N)
       THEN LET after == calculate_dependence_by_column(
                             frames.murder_and_qol_df, murder_df, COMPARER_COLUMNS[pc.i],
                             RATE_PER_100000_N, lib)
            IN  /\ murder_df' = after.df_result
                /\ frames' = [frames EXCEPT !.murder_and_qol_df = after.df]
                /\ pc' = Pc("murder_qol", pc.i + 1, "")
       ELSE /\ pc' = Pc("crashed", pc.i, "murder")
            /\ UNCHANGED <<murder_df, frames>>
    /\ UNCHANGED <<files, crime_df, disk, log, lib, analyzerVars>>

\* run(), line 60
WriteMurder ==
    /\ pc.at = "write_murder"
    /\ IF MurderOut \in files.readonly
       THEN /\ pc' = Pc("crashed", 0, "write_murder")
            /\ disk' = disk
       ELSE /\ disk' = to_csv(disk, MurderOut, murder_df)
            /\ pc' = Pc("done", 0, "")
    /\ UNCHANGED <<files, frames, crime_df, murder_df, log, lib, analyzerVars>>

-----------------------------------------------------------------------------
(* Input files of App.run *)

Countries == <<"A", "B", "C", "D", "E">>

\* a CSV table: the countries numbered in who, one row each, with the cells
\* cell[column, country number]
Csv(cols, who, cell) ==
    Frame({COUNTRY} \cup cols, [i \in 1..Len(who) |-> i],
          [i \in 1..Len(who) |-> [c \in {COUNTRY} \cup cols |->
              IF c = COUNTRY THEN Str(Countries[who[i]]) ELSE cell[c, who[i]]]])

QolNumber(c) == CHOOSE j \in 1..Len(COMPARER_COLUMNS) : COMPARER_COLUMNS[j] = c

QolColumns == {COMPARER_COLUMNS[j] : j \in 1..Len(COMPARER_COLUMNS)}

\* the data of one run: GDP for A-D, crime index for A-E (all 0 when
\* zeroCrime), murder rate for B-E, quality of life for A-D
Dataset(zeroCrime) ==
    LET N == 1..Len(Countries)
        gdp == [c \in {GDP}, i \in N |-> Val(10000 * i)]
        crime == [c \in {CRIME_INDEX}, i \in N |-> IF zeroCrime THEN Val(0) ELSE Val(100000 * i)]
        murder == [c \in {RATE_PER_100000_N}, i \in N |-> IF i = 3 THEN NaN ELSE Val(5004 * i)]
        qol == [c \in QolColumns, i \in N |->
                   Val(10000 * ((i * QolNumber(c)) % 5) + 3 * QolNumber(c))]
    IN  [f \in InputFiles |->
            [ readable |-> TRUE,
              table |-> IF f = GdpFile THEN Csv({GDP}, <<1, 2, 3, 4>>, gdp)
                        ELSE IF f = CrimeFile THEN Csv({CRIME_INDEX}, <<1, 2, 3, 4, 5>>, crime)
                        ELSE IF f = MurderFile THEN Csv({RATE_PER_100000_N}, <<2, 3, 4, 5>>, murder)
                        ELSE Csv(QolColumns, <<4, 3, 2, 1>>, qol) ] ]

DropColumn(t, c) ==
    Frame(t.cols \ {c}, t.index, [l \in Labels(t) |-> [x \in t.cols \ {c} |-> t.row[l][x]]])

\* what can be wrong with the files of a run: nothing, an input file that
\* cannot be read, an input file lacking one column, an output file that
\* cannot be written
Faults ==
    {[kind |-> "none", file |-> "", col |-> ""]}
    \cup {[kind |-> "unreadable", file |-> f, col |-> ""] : f \in InputFiles}
    \cup {[kind |-> "dropcol", file |-> f, col |-> COUNTRY] : f \in InputFiles}
    \cup {[kind |-> "dropcol", file |-> GdpFile, col |-> GDP],
          [kind |-> "dropcol", file |-> CrimeFile, col |-> CRIME_INDEX],
          [kind |-> "dropcol", file |-> MurderFile, col |-> RATE_PER_100000_N]}
    \cup {[kind |-> "dropcol", file |-> QolFile, col |-> c] : c \in QolColumns}
    \cup {[kind |-> "readonly", file |-> f, col |-> ""] : f \in {CrimeOut, MurderOut}}

Files(zeroCrime, fault) ==
    LET base == Dataset(zeroCrime)
    IN  [ input |-> [f \in InputFiles |->
                        IF fault.file # f THEN base[f]
                        ELSE IF fault.kind = "unreadable"
                             THEN [readable |-> FALSE, table |-> Frame({}, <<>>, <<>>)]
                        ELSE [readable |-> TRUE, table |-> DropColumn(base[f].table, fault.col)]],
          readonly |-> IF fault.kind = "readonly" THEN {fault.file} ELSE {} ]

InitApp ==
    /\ \E z \in BOOLEAN, fault \in Faults : files = Files(z, fault)
    /\ lib \in LibSet
    /\ pc = Pc("start", 0, "")
    /\ frames = <<>>
    /\ crime_df = _create_df
    /\ murder_df = _create_df
    /\ disk = <<>>
    /\ log = <<>>
    /\ df = Frame({}, <<>>, <<>>)
    /\ df_result = _create_df
    /\ call = NoCall
    /\ latest = <<>>

NextApp ==
    \/ Read
    \/ Merge
    \/ CreateResults
    \/ CrimeGdp
    \/ CrimeQol
    \/ WriteCrime
    \/ MurderGdp
    \/ MurderQol
    \/ WriteMurder

SpecApp == InitApp /\ [][NextApp]_vars

-----------------------------------------------------------------------------
(* Claims about App.run (SpecApp) *)

ReadFails == \E f \in InputFiles : ~files.input[f].readable

\* C5: if reading any of the four input files fails, run() catches the
\* failure, logs it and returns without any join or computation and without
\* writing crime_dependencies.csv or murder_dependencies.csv.
C5_ReadFailure ==
    (ReadFails /\ pc.at # "start") =>
        /\ pc = Pc("done", 0, "")
        /\ log = <<"Error reading dataframes">>
        /\ frames = <<>>
        /\ crime_df = _create_df
        /\ murder_df = _create_df
        /\ disk = <<>>

\* the run has returned after a failed read of the murder file
C5_Witness ==
    /\ ~files.input[MurderFile].readable
    /\ pc.at = "done"
    /\ log # <<>>

\* GDP, then the 7 quality-of-life columns in their fixed order
ExpectedOrder ==
    << "GDP", "QUALITY_OF_LIFE_INDEX", "PURCHASING_POWER_INDEX", "HEALTH_CARE_INDEX",
       "COST_OF_LIVING_INDEX", "PROPERTY_PRICE_TO_INCOME_RATIO", "POLLUTION_INDEX",
       "CLIMATE_INDEX" >>

IsPrefix(a, b) == Len(a) <= Len(b) /\ \A i \in 1..Len(a) : a[i] = b[i]

Completed == pc.at = "done" /\ log = <<>>

\* the rows of a metric's table come from that metric's joined tables
RowsOfMetric(res, gdpFrame, qolFrame, metric) ==
    \A k \in Keys(res) :
        res.row[k] = FieldsOf(IF k = GDP THEN gdpFrame ELSE qolFrame, k, metric)

\* C6: in a run that completes, for each metric GDP is processed first, then
\* the 7 quality-of-life columns in COMPARER_COLUMNS order, all into the
\* metric's own table, which is written only after all 8 rows are in it; each
\* written table has exactly 8 rows, GDP first.
C6_Order ==
    /\ IsPrefix(crime_df.index, ExpectedOrder)
    /\ IsPrefix(murder_df.index, ExpectedOrder)
    /\ pc.at = "crime_qol" => Len(crime_df.index) = pc.i /\ murder_df = _create_df
    /\ pc.at = "murder_qol" => Len(murder_df.index) = pc.i /\ crime_df.index = ExpectedOrder
    /\ \A i \in 1..Len(disk) :
          /\ disk[i].table.index = ExpectedOrder
          /\ Len(disk[i].table.index) = 8
          /\ disk[i].table.index[1] = GDP
          /\ disk[i].table = (IF disk[i].name = CrimeOut THEN crime_df ELSE murder_df)
    /\ Completed =>
          /\ Len(disk) = 2
          /\ disk[1].name = CrimeOut
          /\ disk[2].name = MurderOut
          /\ RowsOfMetric(disk[1].table, frames.gdp_and_crime_df, frames.crime_and_qol_df,
                          CRIME_INDEX)
          /\ RowsOfMetric(disk[2].table, frames.gdp_and_murder_df, frames.murder_and_qol_df,
                          RATE_PER_100000_N)

\* a completed run with both files written
C6_Witness == Completed /\ Len(disk) = 2 /\ Len(murder_df.index) = 8

\* C10: a fatal error of a crime-index computation aborts the run with
\* neither output file written; a fatal error of a murder-rate computation
\* comes only after crime_dependencies.csv was written and leaves
\* murder_dependencies.csv unwritten; murder_dependencies.csv is never written
\* without crime_dependencies.csv written before it.
C10_Abort ==
    /\ (pc.at = "crashed" /\ pc.err = "crime") => disk = <<>>
    /\ (pc.at = "crashed" /\ pc.err = "murder") =>
          /\ Len(disk) = 1
          /\ disk[1].name = CrimeOut
          /\ disk[1].table = crime_df
    /\ \A i \in 1..Len(disk) :
          disk[i].name = MurderOut => (i = 2 /\ disk[1].name = CrimeOut)

\* a murder-rate computation has failed after the crime file was written
C10_Witness ==
    /\ pc.at = "crashed"
    /\ pc.err = "murder"
    /\ Len(disk) = 1
    /\ Len(crime_df.index) = 8

\* a crime-index computation inside the loop has failed
C10_WitnessCrime == pc.at = "crashed" /\ pc.err = "crime" /\ pc.i > 1

====
